---------------------------- MODULE Spec2Model ----------------------------
(***************************************************************************)
(* Workspace database manager: the registry Manager (manager.ts), the      *)
(* filesystem watcher (watcher.ts) and the orchestrator (index.ts).        *)
(*                                                                         *)
(* Every public operation is an async function.  A call runs synchronously *)
(* up to its first await; each await is a suspension point, and the code   *)
(* between two awaits is one atomic step.  A call in flight is a task with *)
(* a position (pc) and its local variables; continuations of different     *)
(* calls may run in any order.  The SQLite wrapper's query/get/execute run *)
(* their statement in the body of the async function, so the statement     *)
(* takes effect in the step that makes the call.                           *)
(***************************************************************************)
EXTENDS Integers, Sequences, FiniteSets, TLC

(* ------------------------------ bounds -------------------------------- *)

\* Number of calls that may be in flight at once.
MaxTasks == 2
\* File sizes a watcher event may report are 1..MaxSize.
MaxSize == 1
\* An update_paths request carries at most MaxPathArgs paths.
MaxPathArgs == 1
\* New removals are not started once databaseCount has drifted below -MaxDrift.
MaxDrift == 1
\* Watch handles that may be left open without a reference to them.
MaxOrphans == 1
\* transaction() calls made on the store that is driven directly.
MaxTx == 2
\* Writes made by the body of a transaction() call.
MaxBody == 2
\* Handles the store that is driven directly may open.
MaxConnects == 2

Tasks == 1..MaxTasks
Sizes == 1..MaxSize
Roots == {"W", "X"}
Paths == {"W/a.db", "X/b.db"}
RootOf(p) == IF p = "W/a.db" THEN "W" ELSE "X"

Statuses == {"active", "inactive", "error", "removed"}
ConfigKeys == <<"server_id", "initialization_status", "schema_version">>

VARIABLES
  records,      \* managed_databases rows of the core store, in insertion order
  tablesExist,  \* the core store's schema has been created
  sysConfig,    \* config_key values present in system_config
  coreOpen,     \* coreDb.db !== null
  initialized,  \* DatabaseManager.initialized
  managed,      \* DatabaseManager.managedDatabases, in insertion order
  state,        \* WorkspaceManager.state: status, databaseCount, lastEvent
  watchedPaths, \* WorkspaceManager.state.watchedPaths (an array)
  wPaths,       \* FileSystemWatcher.config.paths (an array)
  aliased,      \* state.watchedPaths and config.paths are the same array object
  wActive,      \* FileSystemWatcher.isActive
  wHandle,      \* FileSystemWatcher.watcher: <<>> (null) or <<handle>>
  orphans,      \* open watch handles that this.watcher no longer references
  files,        \* the database files that exist on disk
  tasks,        \* the calls in flight
  out,          \* what the last step delivered: the events it emitted, in
                \* order, and then the response it returned, if any
  db,           \* SQLiteDatabase.db of a store driven directly: <<>> (null)
                \* or <<n>>, the n-th handle it opened
  preparedStatements, \* its statement cache: the sql and the handle of each
  committed,    \* the writes its file holds
  pending,      \* the writes of the handle's open SQLite transaction
  inTx,         \* the handle has an open SQLite transaction
  handles,      \* handles opened so far
  calls         \* its transaction() calls

coreVars == <<records, tablesExist, sysConfig, coreOpen>>
mgrVars == <<initialized, managed>>
watchVars == <<watchedPaths, wPaths, aliased, wActive, wHandle, orphans>>
sqlVars == <<db, preparedStatements, committed, pending, inTx, handles, calls>>
vars == <<records, tablesExist, sysConfig, coreOpen, initialized, managed,
          state, watchedPaths, wPaths, aliased, wActive, wHandle, orphans,
          files, tasks, out, db, preparedStatements, committed, pending, inTx,
          handles, calls>>

(* ------------------------------ helpers ------------------------------- *)

Range(s) == {s[i] : i \in 1..Len(s)}

Idle ==
  [op |-> "idle", pc |-> "", path |-> "", rec |-> <<>>, i |-> 0, err |-> "",
   mode |-> "", arg |-> <<>>]

NoOut == <<>>

Ev(ch, name, path, rec) == [ch |-> ch, name |-> name, path |-> path, rec |-> rec]

(* ---------------- requests and responses (handlers/*.ts) -------------- *)

\* The handler registry: the message types that have a handler.
Handlers ==
  {"status", "list_databases", "database_info", "attach_database",
   "detach_database", "list_paths", "update_paths"}

\* The message types a request may carry: the registered ones and another.
MessageTypes == Handlers \cup {"bogus"}

\* The calls in flight that are requests, and the message type of each.
RequestOps == {"info", "attach", "detach", "paths"}

TypeOf(op) ==
  CASE op = "info" -> "database_info"
    [] op = "attach" -> "attach_database"
    [] op = "detach" -> "detach_database"
    [] op = "paths" -> "update_paths"
    [] OTHER -> ""

\* The response envelope {success, data?, error?}: data and error are <<>>
\* (absent) or <<value>>.
Response(type, success, data, error) ==
  Ev("response", type, "", <<[success |-> success, data |-> data, error |-> error]>>)

Success(type, data) == <<Response(type, TRUE, <<data>>, <<>>)>>

Failure(type, msg) == <<Response(type, FALSE, <<>>, <<msg>>)>>

\* What the catch of each handler puts before the message of the error.
Prefix(type) ==
  CASE type = "list_databases" -> "Failed to list databases: "
    [] type = "database_info" -> "Failed to get database info: "
    [] type = "attach_database" -> "Failed to attach database: "
    [] type = "detach_database" -> "Failed to detach database: "
    [] type = "list_paths" -> "Failed to list paths: "
    [] type = "update_paths" -> "Failed to update paths: "
    [] OTHER -> ""

\* A handler whose catch lets the error go on to its caller.
CaughtByNoOne(op, err) == <<>>

\* The call op fails with err: the catch of its handler, if it is a request,
\* turns the error into a failure response.
Caught(op, err) ==
  IF op \in RequestOps
    THEN Failure(TypeOf(op), Prefix(TypeOf(op)) \o err)
    ELSE <<>>

\* The response of a request that succeeds: attach_database returns the
\* record, detach_database a message.
Returned(tk) ==
  IF tk.op = "attach" THEN Success("attach_database", tk.rec[1])
  ELSE IF tk.op = "detach"
    THEN Success("detach_database",
                 "Database " \o tk.path \o " successfully detached")
  ELSE <<>>

(* --------------------- core store: managed_databases ------------------ *)

RowsOf(rows, p) == SelectSeq(rows, LAMBDA r : r.path = p)

HasRow(rows, p) == \E i \in 1..Len(rows) : rows[i].path = p

\* An INSERT into a table whose path column is not UNIQUE.
InsertRowNoUnique(rows, p, size) ==
  [ok |-> TRUE,
   rows |-> Append(rows, [id |-> Len(rows) + 1, path |-> p,
                          status |-> "active", size |-> size])]

\* INSERT INTO managed_databases (path, name, size, last_modified): the path
\* column is UNIQUE NOT NULL, the status column defaults to 'active'.
InsertRow(rows, p, size) ==
  IF HasRow(rows, p)
    THEN [ok |-> FALSE, rows |-> rows]
    ELSE [ok |-> TRUE,
          rows |-> Append(rows, [id |-> Len(rows) + 1, path |-> p,
                                 status |-> "active", size |-> size])]

\* SELECT * FROM managed_databases WHERE path = ? (stmt.get: the first row)
GetRow(rows, p) ==
  IF HasRow(rows, p) THEN <<RowsOf(rows, p)[1]>> ELSE <<>>

\* UPDATE managed_databases SET <fields>, last_modified = ... WHERE path = ?
\* upd.size and upd.status are <<>> (field not given) or <<value>>.
ApplyFields(r, upd) ==
  [r EXCEPT !.size = IF upd.size = <<>> THEN @ ELSE upd.size,
            !.status = IF upd.status = <<>> THEN @ ELSE upd.status[1]]

UpdateRows(rows, p, upd) ==
  [i \in 1..Len(rows) |->
     IF rows[i].path = p THEN ApplyFields(rows[i], upd) ELSE rows[i]]

\* DELETE FROM managed_databases WHERE path = ?
DeleteRows(rows, p) == SelectSeq(rows, LAMBDA r : r.path # p)

\* UPDATE managed_databases SET status = 'removed', last_modified = ... WHERE path = ?
MarkRemoved(rows, p) ==
  [i \in 1..Len(rows) |->
     IF rows[i].path = p THEN [rows[i] EXCEPT !.status = "removed"] ELSE rows[i]]

\* SELECT * FROM managed_databases WHERE status != 'removed'
ListRows(rows) == SelectSeq(rows, LAMBDA r : r.status # "removed")

(* ------------------- orchestrator: listeners (index.ts) --------------- *)

\* this.dbManager.on('database-added', ...)
OnDatabaseAdded(st, p) ==
  [st EXCEPT !.databaseCount = @ + 1,
             !.lastEvent = <<[type |-> "database:added", path |-> p]>>]

\* this.dbManager.on('database-changed', ...)
OnDatabaseChanged(st, p) ==
  [st EXCEPT !.lastEvent = <<[type |-> "database:changed", path |-> p]>>]

\* A 'database-removed' listener that forgets the count.
OnDatabaseRemovedKeepsCount(st, p) ==
  [st EXCEPT !.lastEvent = <<[type |-> "database:removed", path |-> p]>>]

\* this.dbManager.on('database-removed', ...)
OnDatabaseRemoved(st, p) ==
  [st EXCEPT !.databaseCount = @ - 1,
             !.lastEvent = <<[type |-> "database:removed", path |-> p]>>]

\* An 'error' listener that records nothing.
OnErrorKeepsStatus(st, err) == st

\* this.on('error', ...)
OnError(st, err) == [st EXCEPT !.status = "error"]

\* A 'database-added' listener that does not emit the server's event.
AddedEventsNotForwarded(rec) ==
  <<Ev("manager", "database-added", rec.path, <<rec>>)>>

\* What emit('database-added', record) delivers: the Manager's event and the
\* 'event' the orchestrator's listener re-emits.
AddedEvents(rec) ==
  <<Ev("manager", "database-added", rec.path, <<rec>>),
    Ev("server", "database:added", rec.path, <<>>)>>

ChangedEvents(rec) ==
  <<Ev("manager", "database-changed", rec.path, <<rec>>),
    Ev("server", "database:changed", rec.path, <<>>)>>

RemovedEvents(p) ==
  <<Ev("manager", "database-removed", p, <<>>),
    Ev("server", "database:removed", p, <<>>)>>

ErrorEvents(err) == <<Ev("server", "error", err, <<>>)>>

\* this.emit({ type: 'server:start' } as ServerEvent): the object is taken as
\* the name of the event, no listener is registered under it, and nothing is
\* delivered to the subscribers of 'event'.
LifecycleEvents(type) == <<>>

(* ---------------- Manager: the attachment map (manager.ts) ------------ *)

IsManaged(m, p) == \E i \in 1..Len(m) : m[i].path = p

IndexOf(m, p) == CHOOSE i \in 1..Len(m) : m[i].path = p

\* Map.set: a new key is appended, an existing key keeps its place.
MapSet(m, p, open) ==
  IF IsManaged(m, p)
    THEN [i \in 1..Len(m) |->
            IF m[i].path = p THEN [path |-> p, open |-> open] ELSE m[i]]
    ELSE Append(m, [path |-> p, open |-> open])

\* Map.delete
MapDelete(m, p) == SelectSeq(m, LAMBDA e : e.path # p)

\* SQLiteDatabase.disconnect on the entry of p: db.close(), db = null.
CloseEntry(m, p) ==
  [i \in 1..Len(m) |->
     IF m[i].path = p THEN [m[i] EXCEPT !.open = FALSE] ELSE m[i]]

\* The error a statement on the core store raises, if any.
StoreError == IF ~coreOpen THEN "NOT_CONNECTED"
              ELSE IF ~tablesExist THEN "EXECUTE_ERROR" ELSE ""

\* getDatabaseInfo(path): the attachment map decides.
GetDatabaseInfo(p) ==
  IF ~IsManaged(managed, p) THEN "DATABASE_NOT_FOUND"
  ELSE IF managed[IndexOf(managed, p)].open THEN "ok" ELSE "NOT_CONNECTED"

\* listManagedDatabases() while the store is connected.
ListManagedDatabases == ListRows(records)

(* ------------------------------- Init --------------------------------- *)

TxIds == 1..MaxTx

\* A transaction() call: not made yet, in its body after i writes, or over
\* with the code it raised ("" when it returned).
NoCall == [pc |-> "idle", i |-> 0, err |-> ""]

\* new SQLiteDatabase(filename): no handle, an empty statement cache.
SqlInit ==
  /\ db = <<>>
  /\ preparedStatements = {}
  /\ committed = {}
  /\ pending = {}
  /\ inTx = FALSE
  /\ handles = 0
  /\ calls = [k \in TxIds |-> NoCall]

\* The state after new WorkspaceManager({watchPaths: ["W"]}) on a fresh core
\* store: the constructors of index.ts, manager.ts, sqlite.ts and watcher.ts.
Init ==
  /\ records = <<>>
  /\ tablesExist = FALSE
  /\ sysConfig = {}
  /\ coreOpen = FALSE
  /\ initialized = FALSE
  /\ managed = <<>>
  /\ state = [status |-> "initializing", databaseCount |-> 0, lastEvent |-> <<>>]
  /\ watchedPaths = <<"W">>
  /\ wPaths = <<"W">>
  /\ aliased = TRUE
  /\ wActive = FALSE
  /\ wHandle = <<>>
  /\ orphans = {}
  /\ files = {}
  /\ tasks = [t \in Tasks |-> Idle]
  /\ out = NoOut
  /\ SqlInit

(* --------------------------- tasks: plumbing -------------------------- *)

\* A new call takes the lowest free slot.
FreeSlot(t) ==
  /\ tasks[t].op = "idle"
  /\ \A u \in Tasks : u < t => tasks[u].op # "idle"

At(t, pc) == tasks[t].op # "idle" /\ tasks[t].pc = pc

NewTask(op, pc, p) == [Idle EXCEPT !.op = op, !.pc = pc, !.path = p]

\* The catch of start() alone reaches emit('error', ...).
ReportsErrorStartOnly(op) == op = "start"

\* Calls whose failure reaches emit('error', ...) of the orchestrator: the
\* catch of the database-event listener and the catch of start().
ReportsError(op) == op \in {"evt_add", "evt_change", "evt_unlink", "start"}

\* The Manager's events reach the orchestrator's listeners when the Manager
\* is the orchestrator's; a Manager driven directly has no listener.
Wired(op) == op \notin {"initialize", "add", "update", "remove", "cleanup"}

Heard(op, st) == IF Wired(op) THEN st ELSE state

Emitted(op, evs) == IF Wired(op) THEN evs ELSE <<evs[1]>>

\* The call of task t returns: st is the orchestrator state and evs the events
\* of the returning step; a request returns its response.
Done(t, st, evs) ==
  /\ tasks' = [tasks EXCEPT ![t] = Idle]
  /\ state' = st
  /\ out' = evs \o Returned(tasks[t])

\* The call of task t fails with tasks[t].err: the rejection reaches the
\* caller, the catch block that reports it, or the catch of the handler.
Fail(t) ==
  /\ At(t, "fail")
  /\ tasks' = [tasks EXCEPT ![t] = Idle]
  /\ state' = IF ReportsError(tasks[t].op)
                THEN OnError(state, tasks[t].err) ELSE state
  /\ out' = IF ReportsError(tasks[t].op)
               THEN ErrorEvents(tasks[t].err)
               ELSE Caught(tasks[t].op, tasks[t].err)
  /\ UNCHANGED <<coreVars, mgrVars, watchVars, files, sqlVars>>

\* handleFileEvent: this.emit('database-event', event) of the watcher, for
\* the calls the orchestrator's listener makes on it.
DatabaseEvent(op, p) ==
  CASE op = "evt_add" -> <<Ev("watcher", "add", p, <<>>)>>
    [] op = "evt_change" -> <<Ev("watcher", "change", p, <<>>)>>
    [] op = "evt_unlink" -> <<Ev("watcher", "unlink", p, <<>>)>>
    [] OTHER -> NoOut

(* -------------------- Manager.addManagedDatabase ---------------------- *)

\* The call: INSERT INTO managed_databases.
AddBegin(t, op, p, size) ==
  LET ins == InsertRow(records, p, size) IN
  /\ IF StoreError = "" /\ ins.ok
       THEN /\ records' = ins.rows
            /\ tasks' = [tasks EXCEPT ![t] = NewTask(op, "add_get", p)]
       ELSE /\ records' = records
            /\ tasks' = [tasks EXCEPT ![t] =
                   [NewTask(op, "fail", p) EXCEPT !.err = "ADD_DATABASE_ERROR"]]
  /\ out' = DatabaseEvent(op, p)

\* After the insert: SELECT the created record.
AddGet(t) ==
  /\ At(t, "add_get")
  /\ tasks' = [tasks EXCEPT ![t] =
       IF StoreError = ""
         THEN [@ EXCEPT !.pc = "add_connect", !.rec = GetRow(records, tasks[t].path)]
         ELSE [@ EXCEPT !.pc = "fail", !.err = "ADD_DATABASE_ERROR"]]
  /\ out' = NoOut
  /\ UNCHANGED <<coreVars, mgrVars, state, watchVars, files, sqlVars>>

\* new Database(path, {readonly: true, fileMustExist: true})
CanOpen(p) == p \in files

\* With the record: open the read-only connection to the target file.
AddConnect(t) ==
  /\ At(t, "add_connect")
  /\ tasks' = [tasks EXCEPT ![t] =
       IF tasks[t].rec # <<>> /\ CanOpen(tasks[t].path)
         THEN [@ EXCEPT !.pc = "add_set"]
         ELSE [@ EXCEPT !.pc = "fail", !.err = "ADD_DATABASE_ERROR"]]
  /\ out' = NoOut
  /\ UNCHANGED <<coreVars, mgrVars, state, watchVars, files, sqlVars>>

\* Connected: managedDatabases.set(path, db); emit('database-added', record).
AddSet(t) ==
  /\ At(t, "add_set")
  /\ managed' = MapSet(managed, tasks[t].path, TRUE)
  /\ Done(t, Heard(tasks[t].op, OnDatabaseAdded(state, tasks[t].path)),
          Emitted(tasks[t].op, AddedEvents(tasks[t].rec[1])))
  /\ UNCHANGED <<coreVars, initialized, watchVars, files, sqlVars>>

\* A step that only returns to the caller.
Ret(t) ==
  /\ At(t, "ret")
  /\ Done(t, state, <<>>)
  /\ UNCHANGED <<coreVars, mgrVars, watchVars, files, sqlVars>>

(* ------------------- Manager.updateManagedDatabase -------------------- *)

\* The call: the dynamic UPDATE.  With no field the SET clause is empty and
\* the statement does not prepare.
UpdateBegin(t, op, p, upd) ==
  LET err == IF StoreError # "" THEN StoreError
             ELSE IF upd.size = <<>> /\ upd.status = <<>> THEN "EXECUTE_ERROR"
             ELSE "" IN
  /\ IF err = ""
       THEN /\ records' = UpdateRows(records, p, upd)
            /\ tasks' = [tasks EXCEPT ![t] =
                   [NewTask(op, "upd_get", p) EXCEPT !.arg = <<upd>>]]
       ELSE /\ records' = records
            /\ tasks' = [tasks EXCEPT ![t] =
                   [NewTask(op, "fail", p) EXCEPT !.err = err, !.arg = <<upd>>]]
  /\ out' = DatabaseEvent(op, p)

\* After the update: getManagedDatabase(path).
UpdGet(t) ==
  /\ At(t, "upd_get")
  /\ tasks' = [tasks EXCEPT ![t] =
       IF StoreError = ""
         THEN [@ EXCEPT !.pc = "upd_emit", !.rec = GetRow(records, tasks[t].path)]
         ELSE [@ EXCEPT !.pc = "fail", !.err = StoreError]]
  /\ out' = NoOut
  /\ UNCHANGED <<coreVars, mgrVars, state, watchVars, files, sqlVars>>

\* With the record, if any: emit('database-changed', record).
UpdEmit(t) ==
  /\ At(t, "upd_emit")
  /\ IF tasks[t].rec # <<>>
       THEN Done(t, Heard(tasks[t].op, OnDatabaseChanged(state, tasks[t].path)),
                 Emitted(tasks[t].op, ChangedEvents(tasks[t].rec[1])))
       ELSE Done(t, state, <<>>)
  /\ UNCHANGED <<coreVars, mgrVars, watchVars, files, sqlVars>>

(* ------------------- Manager.removeManagedDatabase -------------------- *)

\* The call: UPDATE ... SET status = 'removed'.
RemoveBegin(t, op, p) ==
  /\ IF StoreError = ""
       THEN /\ records' = MarkRemoved(records, p)
            /\ tasks' = [tasks EXCEPT ![t] = NewTask(op, "rm_detach", p)]
       ELSE /\ records' = records
            /\ tasks' = [tasks EXCEPT ![t] =
                   [NewTask(op, "fail", p) EXCEPT !.err = StoreError]]
  /\ out' = DatabaseEvent(op, p)

\* After the update: with an attachment, db.disconnect(); without one,
\* emit('database-removed', path).
RmDetach(t) ==
  /\ At(t, "rm_detach")
  /\ IF IsManaged(managed, tasks[t].path)
       THEN /\ managed' = CloseEntry(managed, tasks[t].path)
            /\ tasks' = [tasks EXCEPT ![t].pc = "rm_evict"]
            /\ out' = NoOut
            /\ state' = state
       ELSE /\ managed' = managed
            /\ Done(t, Heard(tasks[t].op, OnDatabaseRemoved(state, tasks[t].path)),
                    Emitted(tasks[t].op, RemovedEvents(tasks[t].path)))
  /\ UNCHANGED <<coreVars, initialized, watchVars, files, sqlVars>>

\* A cleanup() that iterates the map keeps its place when an entry before
\* its position is deleted.
AfterDelete(ts, t, k) ==
  [u \in Tasks |->
     IF u = t THEN Idle
     ELSE IF ts[u].pc = "cl_next" /\ k > 0 /\ ts[u].i > k
       THEN [ts[u] EXCEPT !.i = @ - 1]
       ELSE ts[u]]

\* Disconnected: managedDatabases.delete(path); emit('database-removed', path).
RmEvict(t) ==
  LET p == tasks[t].path
      k == IF IsManaged(managed, p) THEN IndexOf(managed, p) ELSE 0 IN
  /\ At(t, "rm_evict")
  /\ managed' = MapDelete(managed, p)
  /\ tasks' = AfterDelete(tasks, t, k)
  /\ state' = Heard(tasks[t].op, OnDatabaseRemoved(state, p))
  /\ out' = Emitted(tasks[t].op, RemovedEvents(p)) \o Returned(tasks[t])
  /\ UNCHANGED <<coreVars, initialized, watchVars, files, sqlVars>>

(* -------------------------- Manager.cleanup --------------------------- *)

\* await db.disconnect() on the attachment of path p.
CloseAttempt(p) == <<Ev("called", "disconnect", p, <<>>)>>

\* cleanup() from position i of the map's iterator: db.disconnect() of the
\* next entry, or past the last entry managedDatabases.clear() and
\* coreDb.disconnect().
\* The close of an entry throws (DISCONNECT_ERROR) or closes it; the catch
\* inside the loop logs the error and the loop goes on.
CleanupStep(t, tk, i) ==
  IF i <= Len(managed)
    THEN /\ \E closes \in BOOLEAN :
              managed' = IF closes \/ ~managed[i].open
                           THEN [managed EXCEPT ![i].open = FALSE]
                           ELSE managed
         /\ coreOpen' = coreOpen
         /\ tasks' = [tasks EXCEPT ![t] = [tk EXCEPT !.pc = "cl_next", !.i = i + 1]]
         /\ out' = CloseAttempt(managed[i].path)
    ELSE /\ managed' = <<>>
         /\ coreOpen' = FALSE
         /\ tasks' = [tasks EXCEPT ![t] = [tk EXCEPT !.pc = "cl_finish"]]
         /\ out' = NoOut

ClNext(t) ==
  /\ At(t, "cl_next")
  /\ CleanupStep(t, tasks[t], tasks[t].i)
  /\ UNCHANGED <<records, tablesExist, sysConfig, initialized, state, watchVars, files, sqlVars>>

\* The core store is disconnected: initialized = false; emit('cleanup').
ClFinish(t) ==
  /\ At(t, "cl_finish")
  /\ initialized' = FALSE
  /\ IF tasks[t].op = "stop"
       THEN /\ tasks' = [tasks EXCEPT ![t].pc = "stop_mark"]
            /\ out' = <<Ev("manager", "cleanup", "", <<>>)>>
            /\ state' = state
       ELSE Done(t, state, <<Ev("manager", "cleanup", "", <<>>)>>)
  /\ UNCHANGED <<coreVars, managed, watchVars, files, sqlVars>>

(* ------------------------- Manager.initialize ------------------------- *)

\* Where the caller of initialize() goes on.
AfterInit(op) == IF op = "start" THEN "start_list" ELSE "ret"

\* The call: nothing when initialized; else coreDb.connect(), which opens
\* the core store unless it is open already and may fail to open it.
InitBegin(t, op) ==
  /\ IF initialized
       THEN /\ tasks' = [tasks EXCEPT ![t] = NewTask(op, AfterInit(op), "")]
            /\ coreOpen' = coreOpen
       ELSE \E opened \in BOOLEAN :
            IF coreOpen \/ opened
              THEN /\ coreOpen' = TRUE
                   /\ tasks' = [tasks EXCEPT ![t] = NewTask(op, "init_tables", "")]
              ELSE /\ coreOpen' = FALSE
                   /\ tasks' = [tasks EXCEPT ![t] =
                          [NewTask(op, "fail", "") EXCEPT !.err = "INIT_ERROR"]]
  /\ out' = NoOut

\* An initializeTables() that creates the tables anew.
InitTablesAnew(t) ==
  /\ At(t, "init_tables")
  /\ IF coreOpen
       THEN /\ tablesExist' = TRUE
            /\ records' = <<>>
            /\ tasks' = [tasks EXCEPT ![t] = [@ EXCEPT !.pc = "init_config", !.i = 1]]
       ELSE /\ tablesExist' = tablesExist
            /\ records' = records
            /\ tasks' = [tasks EXCEPT ![t] = [@ EXCEPT !.pc = "fail", !.err = "INIT_ERROR"]]
  /\ out' = NoOut
  /\ UNCHANGED <<sysConfig, coreOpen, mgrVars, state, watchVars, files, sqlVars>>

\* initializeTables(): CREATE TABLE IF NOT EXISTS ...
InitTables(t) ==
  /\ At(t, "init_tables")
  /\ IF coreOpen
       THEN /\ tablesExist' = TRUE
            /\ tasks' = [tasks EXCEPT ![t] = [@ EXCEPT !.pc = "init_config", !.i = 1]]
       ELSE /\ tablesExist' = tablesExist
            /\ tasks' = [tasks EXCEPT ![t] = [@ EXCEPT !.pc = "fail", !.err = "INIT_ERROR"]]
  /\ out' = NoOut
  /\ UNCHANGED <<records, sysConfig, coreOpen, mgrVars, state, watchVars, files, sqlVars>>

\* initializeSystemConfig(): INSERT OR REPLACE of the i-th key.
InitConfig(t) ==
  /\ At(t, "init_config")
  /\ IF StoreError = ""
       THEN /\ sysConfig' = sysConfig \cup {ConfigKeys[tasks[t].i]}
            /\ tasks' = [tasks EXCEPT ![t] =
                   IF tasks[t].i < Len(ConfigKeys)
                     THEN [@ EXCEPT !.i = @ + 1]
                     ELSE [@ EXCEPT !.pc = "init_finish", !.i = 0]]
       ELSE /\ sysConfig' = sysConfig
            /\ tasks' = [tasks EXCEPT ![t] = [@ EXCEPT !.pc = "fail", !.err = "INIT_ERROR"]]
  /\ out' = NoOut
  /\ UNCHANGED <<records, tablesExist, coreOpen, mgrVars, state, watchVars, files, sqlVars>>

\* this.initialized = true
InitFinish(t) ==
  /\ At(t, "init_finish")
  /\ initialized' = TRUE
  /\ IF tasks[t].op = "start"
       THEN /\ tasks' = [tasks EXCEPT ![t].pc = "start_list"]
            /\ out' = NoOut
            /\ state' = state
       ELSE Done(t, state, <<>>)
  /\ UNCHANGED <<coreVars, managed, watchVars, files, sqlVars>>

(* --------------------- FileSystemWatcher (watcher.ts) ----------------- *)

\* A chokidar handle: the roots it was created for, whether close() has been
\* called on it, and the files it has reported as present.
NewHandle(paths) == [roots |-> Range(paths), closed |-> FALSE, known |-> {}]

HandleOpen == wHandle # <<>> /\ ~wHandle[1].closed

\* The handles that still deliver events.
LiveHandles == (IF HandleOpen THEN {wHandle[1]} ELSE {}) \cup orphans

\* start(): nothing when isActive; else watch(...), isActive = true,
\* emit('started').  A handle still referenced and open is overwritten.
WatcherStart ==
  IF wActive
    THEN UNCHANGED <<wActive, wHandle, orphans>>
    ELSE /\ wHandle' = <<NewHandle(wPaths)>>
         /\ wActive' = TRUE
         /\ orphans' = IF HandleOpen THEN orphans \cup {wHandle[1]} ELSE orphans

\* start() when watch(...) throws: the error is emitted and rethrown, and the
\* watcher is left as it was.
WatcherStartFails ==
  /\ ~wActive
  /\ UNCHANGED <<wActive, wHandle, orphans>>

StartedEvents == IF wActive THEN <<>> ELSE <<Ev("watcher", "started", "", <<>>)>>

\* stop() returns at once when the watcher is not running.
WatcherStopIsNoop == ~wActive \/ wHandle = <<>>

\* Where the caller of the watcher's stop() goes on.
AfterWatcherStop(op) ==
  IF op = "stop" THEN "stop_cleanup"
  ELSE IF op = "paths" THEN "reload_start" ELSE "ret"

\* stop(), the call: this.watcher.close() unless the watcher is not running.
WatcherStopBegin(t, tk) ==
  IF WatcherStopIsNoop
    THEN /\ wHandle' = wHandle
         /\ tasks' = [tasks EXCEPT ![t] = [tk EXCEPT !.pc = AfterWatcherStop(tk.op)]]
    ELSE /\ wHandle' = <<[wHandle[1] EXCEPT !.closed = TRUE]>>
         /\ tasks' = [tasks EXCEPT ![t] = [tk EXCEPT !.pc = "wstop_closed"]]

\* stop(), after close(): this.watcher = null; isActive = false;
\* emit('stopped').  The handle dropped is whatever this.watcher holds now;
\* dropping an open handle leaks it, which is allowed MaxOrphans times.
WatcherStopClosed(t) ==
  /\ At(t, "wstop_closed")
  /\ HandleOpen => Cardinality(orphans) < MaxOrphans
  /\ orphans' = IF HandleOpen THEN orphans \cup {wHandle[1]} ELSE orphans
  /\ wHandle' = <<>>
  /\ wActive' = FALSE
  /\ tasks' = [tasks EXCEPT ![t].pc = AfterWatcherStop(tasks[t].op)]
  /\ out' = <<Ev("watcher", "stopped", "", <<>>)>>
  /\ UNCHANGED <<coreVars, mgrVars, state, watchedPaths, wPaths, aliased, files, sqlVars>>

(* ------------------ the filesystem and chokidar's events -------------- *)

CreateFile(p) ==
  /\ p \notin files
  /\ files' = files \cup {p}
  /\ out' = NoOut
  /\ UNCHANGED <<coreVars, mgrVars, state, watchVars, tasks, sqlVars>>

DeleteFile(p) ==
  /\ p \in files
  /\ files' = files \ {p}
  /\ out' = NoOut
  /\ UNCHANGED <<coreVars, mgrVars, state, watchVars, tasks, sqlVars>>

\* Handle h becomes h2.
ReplaceHandle(h, h2) ==
  IF HandleOpen /\ wHandle[1] = h
    THEN wHandle' = <<h2>> /\ orphans' = orphans
    ELSE wHandle' = wHandle /\ orphans' = (orphans \ {h}) \cup {h2}

\* New removals are not started once databaseCount has drifted too far.
MayRemove == state.databaseCount > 0 - MaxDrift

\* chokidar 'add' -> handleFileEvent -> the 'database-event' listener of the
\* orchestrator: addManagedDatabase(event.path, event.size).
WatchAdd(t, h, p, size) ==
  /\ FreeSlot(t)
  /\ RootOf(p) \in h.roots /\ p \in files /\ p \notin h.known
  /\ ReplaceHandle(h, [h EXCEPT !.known = @ \cup {p}])
  /\ AddBegin(t, "evt_add", p, <<size>>)
  /\ UNCHANGED <<tablesExist, sysConfig, coreOpen, mgrVars, state,
                 watchedPaths, wPaths, aliased, wActive, files, sqlVars>>

\* chokidar 'change': updateManagedDatabase(event.path, {size: event.size}).
WatchChange(t, h, p, size) ==
  /\ FreeSlot(t)
  /\ RootOf(p) \in h.roots /\ p \in files /\ p \in h.known
  /\ UpdateBegin(t, "evt_change", p, [size |-> <<size>>, status |-> <<>>])
  /\ UNCHANGED <<tablesExist, sysConfig, coreOpen, mgrVars, state, watchVars, files, sqlVars>>

\* chokidar 'unlink': removeManagedDatabase(event.path).
WatchUnlink(t, h, p) ==
  /\ FreeSlot(t)
  /\ MayRemove
  /\ p \notin files /\ p \in h.known
  /\ ReplaceHandle(h, [h EXCEPT !.known = @ \ {p}])
  /\ RemoveBegin(t, "evt_unlink", p)
  /\ UNCHANGED <<tablesExist, sysConfig, coreOpen, mgrVars, state,
                 watchedPaths, wPaths, aliased, wActive, files, sqlVars>>

\* this.emit('error', error) of the FileSystemWatcher.  The orchestrator
\* registers no 'error' listener on its watcher; unless the host has added
\* one (heard), EventEmitter throws the error back into chokidar's callback,
\* where nothing catches it.
WatcherErrorEvents(heard, err) ==
  IF heard THEN <<Ev("watcher", "error", err, <<>>)>>
  ELSE <<Ev("process", "uncaughtException", err, <<>>)>>

\* chokidar 'error' on a handle that still delivers events: the listener set
\* up by setupEventHandlers re-emits it; nothing else is touched.
WatchError(h, heard) ==
  /\ h \in LiveHandles
  /\ out' = WatcherErrorEvents(heard, "WATCH_ERROR")
  /\ UNCHANGED <<coreVars, mgrVars, state, watchVars, files, tasks, sqlVars>>

(* ---------------- WorkspaceManager.start / stop (index.ts) ------------ *)

\* The host awaits start() and stop(): it has one of them in flight at a time.
NoLifecycleCall == \A u \in Tasks : tasks[u].op \notin {"start", "stop"}

\* start(), the call: initializeComponents() -> dbManager.initialize().
Start(t) ==
  /\ FreeSlot(t)
  /\ NoLifecycleCall
  /\ InitBegin(t, "start")
  /\ UNCHANGED <<records, tablesExist, sysConfig, mgrVars, state, watchVars, files, sqlVars>>

\* After initialize(): listManagedDatabases() queries the core store.
StartList(t) ==
  /\ At(t, "start_list")
  /\ tasks' = [tasks EXCEPT ![t] =
       IF StoreError = ""
         THEN [@ EXCEPT !.pc = "start_watch", !.i = Len(ListManagedDatabases)]
         ELSE [@ EXCEPT !.pc = "fail", !.err = StoreError]]
  /\ out' = NoOut
  /\ UNCHANGED <<coreVars, mgrVars, state, watchVars, files, sqlVars>>

\* With the list: state.databaseCount = databases.length; fileWatcher.start().
StartWatch(t) ==
  /\ At(t, "start_watch")
  /\ state' = [state EXCEPT !.databaseCount = tasks[t].i]
  /\ \/ /\ WatcherStart
        /\ tasks' = [tasks EXCEPT ![t] = [@ EXCEPT !.pc = "start_mark", !.i = 0]]
        /\ out' = StartedEvents
     \/ /\ WatcherStartFails
        /\ tasks' = [tasks EXCEPT ![t] =
               [@ EXCEPT !.pc = "fail", !.i = 0, !.err = "WATCH_ERROR"]]
        /\ out' = NoOut
  /\ UNCHANGED <<coreVars, mgrVars, watchedPaths, wPaths, aliased, files, sqlVars>>

\* The components are up: status = 'running'.  this.emit({type: 'server:start'})
\* names no event that has a listener, so nothing is delivered.
StartMark(t) ==
  /\ At(t, "start_mark")
  /\ Done(t, [state EXCEPT !.status = "running"], LifecycleEvents("server:start"))
  /\ UNCHANGED <<coreVars, mgrVars, watchVars, files, sqlVars>>

\* stop(), the call: fileWatcher.stop().
Stop(t) ==
  /\ FreeSlot(t)
  /\ NoLifecycleCall
  /\ WatcherStopBegin(t, NewTask("stop", "", ""))
  /\ out' = NoOut
  /\ UNCHANGED <<coreVars, mgrVars, state, watchedPaths, wPaths, aliased,
                 wActive, orphans, files, sqlVars>>

\* The watcher is stopped: dbManager.cleanup().
StopCleanup(t) ==
  /\ At(t, "stop_cleanup")
  /\ CleanupStep(t, tasks[t], 1)
  /\ UNCHANGED <<records, tablesExist, sysConfig, initialized, state, watchVars, files, sqlVars>>

\* A stop() that returns without marking the server stopped.
StopMarkKeepsStatus(t) ==
  /\ At(t, "stop_mark")
  /\ Done(t, state, <<>>)
  /\ UNCHANGED <<coreVars, mgrVars, watchVars, files, sqlVars>>

\* After cleanup(): status = 'stopped'.  this.emit({type: 'server:stop'})
\* delivers nothing, as in start().
StopMark(t) ==
  /\ At(t, "stop_mark")
  /\ Done(t, [state EXCEPT !.status = "stopped"], LifecycleEvents("server:stop"))
  /\ UNCHANGED <<coreVars, mgrVars, watchVars, files, sqlVars>>

(* ------------- requests: attach_database, detach_database ------------- *)

\* handleMessage({type: 'attach_database', data: {path}})
Attach(t, p) ==
  /\ FreeSlot(t)
  /\ AddBegin(t, "attach", p, <<>>)
  /\ UNCHANGED <<tablesExist, sysConfig, coreOpen, mgrVars, state, watchVars, files, sqlVars>>

\* handleMessage({type: 'detach_database', data: {path}})
Detach(t, p) ==
  /\ FreeSlot(t)
  /\ MayRemove
  /\ RemoveBegin(t, "detach", p)
  /\ UNCHANGED <<tablesExist, sysConfig, coreOpen, mgrVars, state, watchVars, files, sqlVars>>

(* ------ requests: status, list_databases, list_paths, database_info --- *)

\* The message types whose handler validates a payload.
PayloadTypes ==
  {"database_info", "attach_database", "detach_database", "update_paths"}

\* A dispatcher that answers a type it has no handler for with a success.
UnknownSucceeds(type) == Success(type, "")

\* handlers.get(type) finds no handler: handleMessage throws and its catch
\* returns the message of the error.
Unknown(type) == Failure(type, "Unknown message type: " \o type)

\* handleMessage({type}) for a type without a handler, or with a handler
\* that returns what it reads in the call: handleStatus, handleListPaths and
\* handleListDatabases, whose query runs in the call.
Request(type) ==
  /\ type \in MessageTypes \ PayloadTypes
  /\ out' =
       CASE type \notin Handlers -> Unknown(type)
         [] type = "status" ->
              Success(type, [status |-> state.status,
                             databaseCount |-> state.databaseCount,
                             watchedPaths |-> watchedPaths,
                             lastEvent |-> state.lastEvent])
         [] type = "list_paths" -> Success(type, [paths |-> wPaths])
         [] type = "list_databases" ->
              IF StoreError = ""
                THEN Success(type, [databases |-> ListManagedDatabases])
                ELSE Failure(type, Prefix(type) \o StoreError)
  /\ UNCHANGED <<coreVars, mgrVars, state, watchVars, files, tasks, sqlVars>>

\* handleMessage({type, data}) with a payload the handler's schema rejects.
InvalidRequest(type) ==
  /\ type \in PayloadTypes
  /\ out' = Failure(type, "Invalid request parameters: Required")
  /\ UNCHANGED <<coreVars, mgrVars, state, watchVars, files, tasks, sqlVars>>

\* handleMessage({type: 'database_info', data: {path}}), the call:
\* getManagedDatabase(path).
DatabaseInfo(t, p) ==
  /\ FreeSlot(t)
  /\ tasks' = [tasks EXCEPT ![t] =
       IF StoreError = ""
         THEN [NewTask("info", "info_tables", p) EXCEPT !.rec = GetRow(records, p)]
         ELSE [NewTask("info", "fail", p) EXCEPT !.err = StoreError]]
  /\ out' = NoOut
  /\ UNCHANGED <<coreVars, mgrVars, state, watchVars, files, sqlVars>>

\* With the record: without one the handler returns a failure; with one it
\* calls getDatabaseInfo(path) and returns the record and its tables.
InfoTables(t) ==
  LET p == tasks[t].path IN
  /\ At(t, "info_tables")
  /\ tasks' = [tasks EXCEPT ![t] = Idle]
  /\ out' = IF tasks[t].rec = <<>>
              THEN Failure("database_info", "Database not found: " \o p)
            ELSE IF GetDatabaseInfo(p) = "ok"
              THEN Success("database_info", tasks[t].rec[1])
              ELSE Failure("database_info",
                           Prefix("database_info") \o GetDatabaseInfo(p))
  /\ UNCHANGED <<coreVars, mgrVars, state, watchVars, files, sqlVars>>

(* -------------------- requests: update_paths (paths.ts) --------------- *)

OpModes == {"set", "add", "remove"}

Includes(s, x) == \E i \in 1..Len(s) : s[i] = x

\* Array.prototype.splice(indexOf(x), 1)
RemoveFirst(s, x) ==
  LET k == CHOOSE i \in 1..Len(s) : s[i] = x /\ \A j \in 1..(i - 1) : s[j] # x
  IN [j \in 1..(Len(s) - 1) |-> IF j < k THEN s[j] ELSE s[j + 1]]

\* addPath / removePath without their guards: every call changes the array.
MutatesAlways(mode, paths, x) == TRUE

\* addPath / removePath change the array in place: does path x change it?
Mutates(mode, paths, x) ==
  IF mode = "add" THEN ~Includes(paths, x) ELSE Includes(paths, x)

Mutated(mode, paths, x) ==
  IF mode = "add" THEN Append(paths, x) ELSE RemoveFirst(paths, x)

\* handleUpdatePaths from position i of request.data.paths.  'set' (position
\* 0) calls reloadPaths(paths); 'add' and 'remove' call addPath / removePath for the
\* i-th path, which reloads when it changed the array and the watcher runs.
\* Past the last path the response is built from getWatchedPaths().
PathsStep(t, tk, i) ==
  IF i = 0
    THEN /\ wPaths' = tk.arg
         /\ aliased' = FALSE
         /\ watchedPaths' = watchedPaths
         /\ state' = state
         /\ out' = NoOut
         /\ IF wActive
              THEN WatcherStopBegin(t, [tk EXCEPT !.i = Len(tk.arg) + 1])
              ELSE /\ wHandle' = wHandle
                   /\ tasks' = [tasks EXCEPT ![t] =
                          [tk EXCEPT !.pc = "paths_next", !.i = Len(tk.arg) + 1]]
  ELSE IF i <= Len(tk.arg)
    THEN LET x == tk.arg[i]
             hit == Mutates(tk.mode, wPaths, x)
             new == IF hit THEN Mutated(tk.mode, wPaths, x) ELSE wPaths IN
         /\ wPaths' = new
         /\ watchedPaths' = IF aliased THEN new ELSE watchedPaths
         /\ aliased' = aliased
         /\ state' = state
         /\ out' = NoOut
         /\ IF hit /\ wActive
              THEN WatcherStopBegin(t, [tk EXCEPT !.i = i + 1])
              ELSE /\ wHandle' = wHandle
                   /\ tasks' = [tasks EXCEPT ![t] =
                          [tk EXCEPT !.pc = "paths_next", !.i = i + 1]]
    ELSE /\ tasks' = [tasks EXCEPT ![t] = Idle]
         /\ state' = state
         /\ out' = Success("update_paths", [operation |-> tk.mode, paths |-> wPaths])
         /\ UNCHANGED <<watchedPaths, wPaths, aliased, wHandle>>

\* handleMessage({type: 'update_paths', data: {operation, paths}})
UpdatePaths(t, mode, arg) ==
  /\ FreeSlot(t)
  /\ PathsStep(t, [NewTask("paths", "", "") EXCEPT !.mode = mode, !.arg = arg],
               IF mode = "set" THEN 0 ELSE 1)
  /\ UNCHANGED <<coreVars, mgrVars, wActive, orphans, files, sqlVars>>

PathsNext(t) ==
  /\ At(t, "paths_next")
  /\ PathsStep(t, tasks[t], tasks[t].i)
  /\ UNCHANGED <<coreVars, mgrVars, wActive, orphans, files, sqlVars>>

\* reloadPaths after stop(): start().
ReloadStart(t) ==
  /\ At(t, "reload_start")
  /\ \/ /\ WatcherStart
        /\ tasks' = [tasks EXCEPT ![t].pc = "paths_next"]
        /\ out' = StartedEvents
     \/ /\ WatcherStartFails
        /\ tasks' = [tasks EXCEPT ![t] = [@ EXCEPT !.pc = "fail", !.err = "WATCH_ERROR"]]
        /\ out' = NoOut
  /\ UNCHANGED <<coreVars, mgrVars, state, watchedPaths, wPaths, aliased, files, sqlVars>>

(* ----------------- direct calls on the DatabaseManager ---------------- *)

FieldSets ==
  [size : {<<>>} \cup {<<n>> : n \in Sizes},
   status : {<<>>} \cup {<<x>> : x \in Statuses}]

MgrInitialize(t) ==
  /\ FreeSlot(t)
  /\ InitBegin(t, "initialize")
  /\ UNCHANGED <<records, tablesExist, sysConfig, mgrVars, state, watchVars, files, sqlVars>>

MgrAdd(t, p, size) ==
  /\ FreeSlot(t)
  /\ AddBegin(t, "add", p, size)
  /\ UNCHANGED <<tablesExist, sysConfig, coreOpen, mgrVars, state, watchVars, files, sqlVars>>

MgrUpdate(t, p, upd) ==
  /\ FreeSlot(t)
  /\ UpdateBegin(t, "update", p, upd)
  /\ UNCHANGED <<tablesExist, sysConfig, coreOpen, mgrVars, state, watchVars, files, sqlVars>>

MgrRemove(t, p) ==
  /\ FreeSlot(t)
  /\ RemoveBegin(t, "remove", p)
  /\ UNCHANGED <<tablesExist, sysConfig, coreOpen, mgrVars, state, watchVars, files, sqlVars>>

MgrCleanup(t) ==
  /\ FreeSlot(t)
  /\ CleanupStep(t, NewTask("cleanup", "", ""), 1)
  /\ UNCHANGED <<records, tablesExist, sysConfig, initialized, state, watchVars, files, sqlVars>>

(* ---------------- direct calls on the FileSystemWatcher --------------- *)

\* getFileWatcher().start(): the whole body runs in the step of the call.
FileWatcherStart(t) ==
  /\ FreeSlot(t)
  /\ \/ /\ WatcherStart
        /\ tasks' = [tasks EXCEPT ![t] = NewTask("watcher_start", "ret", "")]
        /\ out' = StartedEvents
     \/ /\ WatcherStartFails
        /\ tasks' = [tasks EXCEPT ![t] =
               [NewTask("watcher_start", "fail", "") EXCEPT !.err = "WATCH_ERROR"]]
        /\ out' = NoOut
  /\ UNCHANGED <<coreVars, mgrVars, state, watchedPaths, wPaths, aliased, files, sqlVars>>

\* getFileWatcher().stop()
FileWatcherStop(t) ==
  /\ FreeSlot(t)
  /\ WatcherStopBegin(t, NewTask("watcher_stop", "", ""))
  /\ out' = NoOut
  /\ UNCHANGED <<coreVars, mgrVars, state, watchedPaths, wPaths, aliased,
                 wActive, orphans, files, sqlVars>>

(* ------------- SQLiteDatabase (sqlite.ts), driven directly ------------ *)

\* The server's own variables, which the calls on this store leave alone.
serverVars == <<coreVars, mgrVars, state, watchVars, files, tasks>>

\* A DatabaseError that lost its operation tag.
RaisedUntagged(code, operation) == <<Ev("raised", code, "", <<>>)>>

\* An error thrown to the caller: the code and operation tag of a
\* DatabaseError, or the name of another error with no tag.
Raised(code, operation) == <<Ev("raised", code, operation, <<>>)>>

\* The operation of the store that a step invokes.
Called(op) == <<Ev("called", op, "", <<>>)>>

\* The writes: the j-th write of call k's body, and one made outside any
\* transaction() call.
BodyWrites(k) == {<<k, j>> : j \in 1..MaxBody}
LoneWrite == <<0, 1>>

\* this.preparedStatements.get(sql) / set(sql, stmt): the statement is
\* prepared on the current handle unless the cache has one.
Prepare(sql) ==
  IF \E c \in preparedStatements : c.sql = sql
    THEN preparedStatements
    ELSE preparedStatements \cup {[sql |-> sql, handle |-> db[1]]}

\* stmt.run of a write ignores the caller: inside the handle's open
\* transaction it is pending, outside it is committed at once.
Run(w) ==
  IF inTx
    THEN pending' = pending \cup {w} /\ committed' = committed
    ELSE committed' = committed \cup {w} /\ pending' = pending

\* connect(): nothing when connected; else new Database(filename, ...),
\* which fails with CONNECTION_ERROR or gives a handle.
SqConnect(ok) ==
  /\ IF db # <<>>
       THEN /\ out' = Called("connect")
            /\ UNCHANGED <<db, handles>>
       ELSE /\ handles < MaxConnects
            /\ IF ok
                 THEN /\ db' = <<handles + 1>>
                      /\ handles' = handles + 1
                      /\ out' = Called("connect")
                 ELSE /\ out' = Called("connect") \o Raised("CONNECTION_ERROR", "connect")
                      /\ UNCHANGED <<db, handles>>
  /\ UNCHANGED <<preparedStatements, committed, pending, inTx, calls, serverVars>>

\* A disconnect() that closes the handle and keeps the statement cache.
SqDisconnectKeepsCache ==
  /\ IF db = <<>>
       THEN UNCHANGED <<db, pending, inTx>>
       ELSE /\ db' = <<>>
            /\ pending' = {}
            /\ inTx' = FALSE
  /\ out' = Called("disconnect")
  /\ UNCHANGED <<preparedStatements, committed, handles, calls, serverVars>>

\* disconnect(): nothing when disconnected; else the cache is cleared and
\* the handle closed (which ends its open transaction) and released.
SqDisconnect ==
  /\ IF db = <<>>
       THEN UNCHANGED <<db, preparedStatements, pending, inTx>>
       ELSE /\ preparedStatements' = {}
            /\ db' = <<>>
            /\ pending' = {}
            /\ inTx' = FALSE
  /\ out' = Called("disconnect")
  /\ UNCHANGED <<committed, handles, calls, serverVars>>

\* query(sql) and get(sql): a cached SELECT.
SqRead(op) ==
  /\ IF db = <<>>
       THEN /\ out' = Called(op) \o Raised("NOT_CONNECTED", op)
            /\ UNCHANGED preparedStatements
       ELSE /\ preparedStatements' = Prepare("SELECT")
            /\ out' = Called(op)
  /\ UNCHANGED <<db, committed, pending, inTx, handles, calls, serverVars>>

\* execute(sql, params): a cached INSERT.
SqExecute ==
  /\ IF db = <<>>
       THEN /\ out' = Called("execute") \o Raised("NOT_CONNECTED", "execute")
            /\ UNCHANGED <<preparedStatements, committed, pending>>
       ELSE /\ preparedStatements' = Prepare("INSERT")
            /\ Run(LoneWrite)
            /\ out' = Called("execute")
  /\ UNCHANGED <<db, inTx, handles, calls, serverVars>>

\* exec(sql): not cached (here a statement that writes no row).
SqExec ==
  /\ out' = Called("exec") \o
            (IF db = <<>> THEN Raised("NOT_CONNECTED", "exec") ELSE NoOut)
  /\ UNCHANGED <<sqlVars, serverVars>>

\* The call k is over, having raised err ("" when it returned), in a step
\* that delivered evs before.
Over(k, evs, err, operation) ==
  /\ calls' = [calls EXCEPT ![k] = [@ EXCEPT !.pc = "over", !.err = err]]
  /\ out' = evs \o (IF err = "" THEN NoOut ELSE Raised(err, operation))

\* The catch of transaction(): this.db.exec('ROLLBACK'), then the
\* TRANSACTION_ERROR.  Without a handle the exec is a TypeError, and without
\* an open transaction the engine rejects the ROLLBACK: either is thrown as
\* it is.
TxCatch(k, evs) ==
  IF db = <<>>
    THEN /\ Over(k, evs, "TypeError", "")
         /\ UNCHANGED <<pending, inTx>>
    ELSE IF inTx
      THEN /\ pending' = {}
           /\ inTx' = FALSE
           /\ Over(k, evs, "TRANSACTION_ERROR", "transaction")
      ELSE /\ Over(k, evs, "SqliteError", "")
           /\ UNCHANGED <<pending, inTx>>

\* transaction(callback), the call: BEGIN TRANSACTION, which the engine
\* rejects when the handle already has an open transaction.
Transaction(k) ==
  /\ calls[k].pc = "idle"
  /\ IF db = <<>>
       THEN /\ Over(k, Called("transaction"), "NOT_CONNECTED", "transaction")
            /\ UNCHANGED <<pending, inTx>>
       ELSE IF inTx
         THEN TxCatch(k, Called("transaction"))
         ELSE /\ inTx' = TRUE
              /\ pending' = pending
              /\ calls' = [calls EXCEPT ![k].pc = "body"]
              /\ out' = Called("transaction")
  /\ UNCHANGED <<db, preparedStatements, committed, handles, serverVars>>

\* The body's next await db.execute(...): a NOT_CONNECTED makes the body
\* throw.
TxWrite(k) ==
  /\ calls[k].pc = "body" /\ calls[k].i < MaxBody
  /\ IF db = <<>>
       THEN /\ TxCatch(k, NoOut)
            /\ UNCHANGED <<preparedStatements, committed>>
       ELSE /\ preparedStatements' = Prepare("INSERT")
            /\ Run(<<k, calls[k].i + 1>>)
            /\ calls' = [calls EXCEPT ![k].i = @ + 1]
            /\ out' = NoOut
            /\ inTx' = inTx
  /\ UNCHANGED <<db, handles, serverVars>>

\* The body returns: this.db.exec('COMMIT'); a failure of it goes to the
\* catch.
TxReturn(k) ==
  /\ calls[k].pc = "body" /\ calls[k].i = MaxBody
  /\ IF db # <<>> /\ inTx
       THEN /\ committed' = committed \cup pending
            /\ pending' = {}
            /\ inTx' = FALSE
            /\ Over(k, NoOut, "", "")
       ELSE /\ TxCatch(k, NoOut)
            /\ committed' = committed
  /\ UNCHANGED <<db, preparedStatements, handles, serverVars>>

\* The body throws, after any number of its writes.
TxThrow(k) ==
  /\ calls[k].pc = "body"
  /\ TxCatch(k, NoOut)
  /\ UNCHANGED <<db, preparedStatements, committed, handles, serverVars>>

\* A store and its callers: connects and disconnects, reads and writes, and
\* transaction() calls whose bodies await each of their writes.
NextStore ==
  \/ \E ok \in BOOLEAN : SqConnect(ok)
  \/ SqDisconnect
  \/ \E op \in {"query", "get"} : SqRead(op)
  \/ SqExecute
  \/ SqExec
  \/ \E k \in TxIds : Transaction(k) \/ TxWrite(k) \/ TxReturn(k) \/ TxThrow(k)

SpecStore == Init /\ [][NextStore]_vars

(* --------------------------- specifications --------------------------- *)

\* No call is in flight.
Quiet == \A t \in Tasks : tasks[t].op = "idle"

\* The database file the concurrent specifications work on.
OnePath == {"W/a.db"}

PathArgs == UNION {[1..n -> Roots] : n \in 0..MaxPathArgs}

\* The continuations of the Manager's operations.
ManagerSteps(t) ==
  \/ Fail(t)
  \/ AddGet(t) \/ AddConnect(t) \/ AddSet(t)
  \/ UpdGet(t) \/ UpdEmit(t)
  \/ RmDetach(t) \/ RmEvict(t)
  \/ ClNext(t) \/ ClFinish(t)
  \/ InitTables(t) \/ InitConfig(t) \/ InitFinish(t)

\* The continuations of start() and stop().
LifecycleSteps(t) ==
  \/ StartList(t) \/ StartWatch(t) \/ StartMark(t)
  \/ WatcherStopClosed(t) \/ StopCleanup(t) \/ StopMark(t)

\* The events of the live watch handles.
WatcherEvents(t) ==
  \E h \in LiveHandles, p \in OnePath :
     \/ \E n \in Sizes : WatchAdd(t, h, p, n) \/ WatchChange(t, h, p, n)
     \/ WatchUnlink(t, h, p)

Environment == \E p \in OnePath : CreateFile(p) \/ DeleteFile(p)

\* An error of a live watch handle, with or without a host listening.
ReportError == \E h \in LiveHandles, heard \in BOOLEAN : WatchError(h, heard)

\* The orchestrator: start, stop, attach / detach requests and watcher events.
Next ==
  \/ \E t \in Tasks :
       \/ ManagerSteps(t) \/ LifecycleSteps(t)
       \/ Start(t) \/ Stop(t)
       \/ \E p \in OnePath : Attach(t, p) \/ Detach(t, p)
       \/ WatcherEvents(t)
  \/ ReportError
  \/ Environment

Spec == Init /\ [][Next]_vars

\* The state in which start() has returned on a fresh core store.
InitRunning ==
  /\ records = <<>>
  /\ tablesExist = TRUE
  /\ sysConfig = Range(ConfigKeys)
  /\ coreOpen = TRUE
  /\ initialized = TRUE
  /\ managed = <<>>
  /\ state = [status |-> "running", databaseCount |-> 0, lastEvent |-> <<>>]
  /\ watchedPaths = <<"W">>
  /\ wPaths = <<"W">>
  /\ aliased = TRUE
  /\ wActive = TRUE
  /\ wHandle = <<NewHandle(<<"W">>)>>
  /\ orphans = {}
  /\ files = {}
  /\ tasks = [t \in Tasks |-> Idle]
  /\ out = NoOut
  /\ SqlInit

\* The running orchestrator: update_paths requests and stop.
NextPaths ==
  \E t \in Tasks :
     \/ \E mode \in OpModes, arg \in PathArgs : UpdatePaths(t, mode, arg)
     \/ PathsNext(t) \/ ReloadStart(t) \/ Fail(t)
     \/ Stop(t) \/ WatcherStopClosed(t) \/ StopCleanup(t) \/ ClFinish(t) \/ StopMark(t)

SpecPaths == InitRunning /\ [][NextPaths]_vars

\* The continuations of the requests that take more than one step.
RequestSteps(t) ==
  \/ AddGet(t) \/ AddConnect(t) \/ AddSet(t)
  \/ RmDetach(t) \/ RmEvict(t)
  \/ InfoTables(t)
  \/ PathsNext(t) \/ ReloadStart(t)
  \/ Fail(t)

\* The orchestrator behind a driver that awaits each of its calls: start(),
\* stop() and handleMessage() with every type and payload.
NextReq ==
  \/ \E t \in Tasks :
       \/ RequestSteps(t)
       \/ LifecycleSteps(t)
       \/ InitTables(t) \/ InitConfig(t) \/ InitFinish(t)
       \/ ClNext(t) \/ ClFinish(t)
       \/ /\ Quiet
          /\ \/ Start(t) \/ Stop(t)
             \/ \E p \in OnePath : Attach(t, p) \/ Detach(t, p) \/ DatabaseInfo(t, p)
             \/ \E mode \in OpModes, arg \in PathArgs : UpdatePaths(t, mode, arg)
  \/ Quiet /\ \E type \in MessageTypes : Request(type) \/ InvalidRequest(type)
  \/ \E p \in OnePath : CreateFile(p)

SpecReq == Init /\ [][NextReq]_vars

\* The continuations of the calls the 'database-event' listener makes.
HandlerSteps(t) ==
  \/ Fail(t)
  \/ AddGet(t) \/ AddConnect(t) \/ AddSet(t)
  \/ UpdGet(t) \/ UpdEmit(t)
  \/ RmDetach(t) \/ RmEvict(t)

\* What the watcher reports of file p.
ReportAdd(p) == \E t \in Tasks, h \in LiveHandles, n \in Sizes : WatchAdd(t, h, p, n)

ReportChange(p) ==
  \E t \in Tasks, h \in LiveHandles, n \in Sizes : WatchChange(t, h, p, n)

ReportUnlink(p) == \E t \in Tasks, h \in LiveHandles : WatchUnlink(t, h, p)

\* The running server while nobody stops it: files come and go, the watcher
\* reports them and the listener's calls run.
NextWatch ==
  \/ \E t \in Tasks : HandlerSteps(t)
  \/ \E p \in OnePath : ReportAdd(p) \/ ReportChange(p) \/ ReportUnlink(p)
  \/ Environment

\* The event loop runs every continuation that is ready, and the polling
\* watcher (usePolling, interval) reports a file that is there, or gone,
\* at its polls.
FairWatch ==
  /\ \A t \in Tasks : WF_vars(HandlerSteps(t))
  /\ \A p \in OnePath : SF_vars(ReportAdd(p)) /\ SF_vars(ReportUnlink(p))

SpecWatch == InitRunning /\ [][NextWatch]_vars /\ FairWatch

\* A caller of the running server's Manager:
\* getDatabaseManager().updateManagedDatabase(p, updates).
DirectUpdate(t, p, upd) ==
  /\ FreeSlot(t)
  /\ UpdateBegin(t, "direct_update", p, upd)
  /\ UNCHANGED <<tablesExist, sysConfig, coreOpen, mgrVars, state, watchVars, files, sqlVars>>

\* The running server, its watcher's events and direct updates.
NextUpd ==
  \/ \E t \in Tasks : HandlerSteps(t)
  \/ \E p \in OnePath : ReportAdd(p) \/ ReportChange(p) \/ ReportUnlink(p)
  \/ \E t \in Tasks, p \in OnePath, upd \in FieldSets : DirectUpdate(t, p, upd)
  \/ Environment

SpecUpd == InitRunning /\ [][NextUpd]_vars

\* The DatabaseManager driven directly through its public methods.
NextMgr ==
  \/ \E t \in Tasks :
       \/ ManagerSteps(t) \/ Ret(t)
       \/ MgrInitialize(t) \/ MgrCleanup(t)
       \/ \E p \in OnePath :
            \/ \E size \in {<<>>} \cup {<<n>> : n \in Sizes} : MgrAdd(t, p, size)
            \/ \E upd \in FieldSets : MgrUpdate(t, p, upd)
            \/ MgrRemove(t, p)
  \/ Environment

SpecMgr == Init /\ [][NextMgr]_vars

\* The watcher and its callers: start(), stop() and, through update_paths,
\* reloadPaths(), addPath() and removePath(), in any interleaving.
NextWatcher ==
  \E t \in Tasks :
     \/ FileWatcherStart(t) \/ FileWatcherStop(t)
     \/ WatcherStopClosed(t) \/ Ret(t) \/ Fail(t)
     \/ \E mode \in OpModes, arg \in PathArgs : UpdatePaths(t, mode, arg)
     \/ PathsNext(t) \/ ReloadStart(t)

SpecWatcher == Init /\ [][NextWatcher]_vars

\* start() and stop() of the watcher alone, called by the host in any
\* interleaving: a call may be made while earlier ones await their close().
NextHandle ==
  \E t \in Tasks :
     \/ FileWatcherStart(t) \/ FileWatcherStop(t)
     \/ WatcherStopClosed(t) \/ Ret(t) \/ Fail(t)

SpecHandle == Init /\ [][NextHandle]_vars

(* ------------------------------- claims ------------------------------- *)

\* C1: whenever no Manager operation is in flight, databaseCount equals the
\* number of managed_databases records whose status is not 'removed' (and so
\* is never negative).
C1_CountMatchesRegistry ==
  Quiet => state.databaseCount = Len(ListRows(records))

\* C2: every path present in the attachment map has a registry record whose
\* status is 'active' (checked whenever no call is in flight).
C2_AttachedIsActive ==
  Quiet => \A i \in 1..Len(managed) :
             \E j \in 1..Len(records) :
                records[j].path = managed[i].path /\ records[j].status = "active"

\* C3: a record whose status is 'removed' stays 'removed', and no record is
\* ever deleted: every step keeps each row in place, with its path, and keeps
\* 'removed' rows 'removed'.
C3_RemovedIsTerminal ==
  [][\A i \in 1..Len(records) :
        /\ i <= Len(records')
        /\ records'[i].path = records[i].path
        /\ records[i].status = "removed" => records'[i].status = "removed"]_vars

\* The step in which task t calls addManagedDatabase(p).
AddCalled(t, p) ==
  /\ tasks[t].op = "idle"
  /\ tasks'[t].op \in {"add", "attach", "evt_add"}
  /\ tasks'[t].path = p

\* The events of a step that announce name for path p.
Announced(evs, name, p) ==
  SelectSeq(evs, LAMBDA e : e.ch = "manager" /\ e.name = name /\ e.path = p)

\* C4: addManagedDatabase(p) called while a record for p exists fails with
\* ADD_DATABASE_ERROR, adds no record, leaves the records and the attachment
\* map as they are and emits no database-added; no path ever has two records.
C4_AddExistingFails ==
  /\ [](\A p \in Paths : Len(RowsOf(records, p)) <= 1)
  /\ [][\A t \in Tasks, p \in Paths :
          /\ (AddCalled(t, p) /\ HasRow(records, p))
               => /\ tasks'[t].pc = "fail"
                  /\ tasks'[t].err = "ADD_DATABASE_ERROR"
                  /\ records' = records
                  /\ managed' = managed
                  /\ Announced(out', "database-added", p) = <<>>
          /\ (At(t, "fail") /\ tasks[t].path = p /\ tasks'[t].op = "idle")
               => /\ records' = records
                  /\ managed' = managed
                  /\ Announced(out', "database-added", p) = <<>>]_vars

\* An addManagedDatabase(p) was rejected at its INSERT while p has a record.
C4_Witness ==
  \E t \in Tasks :
     /\ tasks[t].op = "add" /\ tasks[t].pc = "fail" /\ tasks[t].rec = <<>>
     /\ tasks[t].err = "ADD_DATABASE_ERROR"
     /\ StoreError = ""
     /\ HasRow(records, tasks[t].path)

\* The step in which the addManagedDatabase(p) of task t returns its record.
AddSucceeds(t, p) ==
  At(t, "add_set") /\ tasks[t].path = p /\ tasks'[t].op = "idle"

\* C5: when addManagedDatabase(p) succeeds, the list holds exactly one record
\* of p, which is active, p is in the attachment map, and exactly one
\* database-added event has been emitted, carrying that record.
C5_AddSucceeded ==
  [][\A t \in Tasks, p \in Paths :
        AddSucceeds(t, p)
          => LET listed == RowsOf(ListRows(records'), p)
                 added == Announced(out', "database-added", p) IN
             /\ Len(listed) = 1
             /\ listed[1].status = "active"
             /\ IsManaged(managed', p)
             /\ Len(added) = 1
             /\ added[1].rec = <<listed[1]>>]_vars

\* removeManagedDatabase(p) has just returned.
JustRemoved(p) == Announced(out, "database-removed", p) # <<>>

Listed(p) == RowsOf(ListRows(records), p) # <<>>

\* C6: from the state in which removeManagedDatabase(p) returns on, the list
\* does not contain p and getDatabaseInfo(p) fails with DATABASE_NOT_FOUND:
\* checked, for a path that has a record, in that state and in every state
\* that follows it directly.
C6_RemovedStaysGone ==
  [][\A p \in Paths :
        (JustRemoved(p) /\ HasRow(records, p))
          => /\ ~Listed(p) /\ GetDatabaseInfo(p) = "DATABASE_NOT_FOUND"
             /\ ~Listed(p)' /\ GetDatabaseInfo(p)' = "DATABASE_NOT_FOUND"]_vars

\* The calls the 'database-event' listener makes.
EventOps == {"evt_add", "evt_change", "evt_unlink"}

StoreStep(t) ==
  \/ tasks[t].op = "idle" /\ tasks'[t].op \in EventOps
  \/ /\ tasks[t].op \in EventOps
     /\ tasks[t].pc \in {"add_get", "upd_get"}
     /\ tasks'[t] # tasks[t]

C9_StartupOrder ==
  [][\A t \in Tasks :
        /\ (state'.status = "running" /\ state.status # "running")
             => \E u \in Tasks : /\ tasks[u].op = "start" /\ At(u, "start_mark")
                                 /\ tasks'[u].op = "idle"
        /\ (At(t, "start_list") /\ tasks'[t].pc = "start_watch")
             => (initialized /\ tasks'[t].i = Len(ListRows(records)))
        /\ (At(t, "start_watch") /\ tasks'[t].pc = "start_mark")
             => (initialized /\ state'.databaseCount = tasks[t].i /\ wActive')
        /\ (At(t, "start_mark") /\ tasks'[t].op = "idle")
             => (initialized /\ wActive /\ state'.status = "running")
        /\ (tasks[t].op = "start" /\ At(t, "fail") /\ tasks'[t].op = "idle")
             => (state'.status = "error" /\ out' = ErrorEvents(tasks[t].err))]_vars

\* A start() on a store that holds records is about to return: the Manager
\* is initialized, the count is loaded and the watcher runs.
C9_Witness ==
  \E t \in Tasks :
     /\ tasks[t].op = "start" /\ tasks[t].pc = "start_mark"
     /\ initialized /\ HandleOpen
     /\ state.databaseCount > 0
     /\ state.databaseCount = Len(ListRows(records))

Responses(evs) == SelectSeq(evs, LAMBDA e : e.ch = "response")

\* The envelope of a response is {success, data?, error?}; a failure carries
\* a non-empty error string and a success carries none.
WellFormed(r) ==
  LET env == r.rec[1] IN
  /\ env.success \in BOOLEAN
  /\ env.success => env.error = <<>>
  /\ ~env.success => (env.data = <<>> /\ env.error # <<>> /\ env.error[1] # "")

\* C11: handleMessage never throws or rejects: every request, of every type
\* and payload and in every server state, ends with exactly one response
\* envelope; a request that ends on a failure (of validation, of the store or
\* of its handler) ends with success = false and a non-empty error string.
C11_AlwaysAnEnvelope ==
  [][/\ Len(Responses(out')) <= 1
     /\ \A i \in 1..Len(Responses(out')) : WellFormed(Responses(out')[i])
     /\ \A t \in Tasks :
          (tasks[t].op \in RequestOps /\ tasks'[t].op = "idle")
            => /\ Len(Responses(out')) = 1
               /\ Responses(out')[1].name = TypeOf(tasks[t].op)
               /\ At(t, "fail") => ~Responses(out')[1].rec[1].success
     /\ \A i \in 1..Len(Responses(out')) :
          LET r == Responses(out')[i] IN
          /\ (r.name \in PayloadTypes \ {"update_paths"} /\ tasks' = tasks)
               => ~r.rec[1].success
          /\ (r.name = "list_databases" /\ ~coreOpen) => ~r.rec[1].success
          /\ r.name \notin Handlers => ~r.rec[1].success]_vars

\* An attach_database request on a stopped server has failed on the
\* disconnected store and was answered with a failure response.
C11_Witness ==
  /\ state.status = "stopped"
  /\ out = Failure("attach_database",
                   "Failed to attach database: ADD_DATABASE_ERROR")

\* C12: handleMessage with a type that is not one of the seven registered
\* types returns {success: false, error: 'Unknown message type: <type>'} and
\* leaves the registry, the attachment map, the watcher and the aggregate
\* state unchanged.
C12_UnknownType ==
  [][\A i \in 1..Len(Responses(out')) :
       LET r == Responses(out')[i] IN
       r.name \notin {"status", "list_databases", "database_info",
                      "attach_database", "detach_database", "list_paths",
                      "update_paths"}
         => /\ ~r.rec[1].success
            /\ r.rec[1].error = <<"Unknown message type: " \o r.name>>
            /\ r.rec[1].data = <<>>
            /\ Len(out') = 1
            /\ UNCHANGED <<coreVars, mgrVars, state, watchVars>>]_vars

\* A request with an unregistered type was answered on a running server
\* that tracks a database.
C12_Witness ==
  /\ state.status = "running"
  /\ managed # <<>>
  /\ out = <<Response("bogus", FALSE, <<>>, <<"Unknown message type: bogus">>)>>

\* C13: when an update_paths request with operation 'add' and paths [X]
\* returns success on a running server, whatever update_paths requests came
\* before, state.watchedPaths contains X and the watcher is running with X in
\* its watched set.
C13_AddedPathIsWatched ==
  [][\A t \in Tasks :
       (/\ tasks[t].op = "paths" /\ tasks[t].mode = "add"
        /\ tasks'[t].op = "idle"
        /\ state.status = "running"
        /\ Responses(out') # <<>> /\ Responses(out')[1].rec[1].success)
         => \A x \in Range(tasks[t].arg) :
               /\ Includes(watchedPaths', x)
               /\ wActive' /\ HandleOpen'
               /\ x \in wHandle'[1].roots]_vars

\* C14: whenever no request is in flight, the watchedPaths that getState()
\* and the status request report equal, in the same order, the watcher's
\* configured paths that list_paths and the update_paths response report.
C14_WatchedPathsCurrent == Quiet => watchedPaths = wPaths

\* The watcher has reported file p as present and not yet as gone.
Known(p) == \E h \in LiveHandles : p \in h.known

\* The last step delivered the event name for path p to the subscribers of
\* 'event'.
Delivered(name, p) ==
  \E i \in 1..Len(out) :
     out[i].ch = "server" /\ out[i].name = name /\ out[i].path = p

\* C15: whenever the server is running and a database file is created at
\* path p under a watched root (and stays), a database:added event with path
\* p is eventually delivered, and databaseCount increases by exactly 1 with it.
C15_CreatedIsAdded ==
  /\ \A p \in OnePath :
       (state.status = "running" /\ p \in files /\ ~Known(p))
         ~> (Delivered("database:added", p) \/ p \notin files)
  /\ [][\A p \in OnePath :
          Delivered("database:added", p)'
            => state'.databaseCount = state.databaseCount + 1]_vars

\* C15, amended: the same for a path that has no registry record when the
\* file is created.
C15_NewFileIsAdded ==
  /\ \A p \in OnePath :
       (/\ state.status = "running" /\ p \in files /\ ~Known(p)
        /\ ~HasRow(records, p))
         ~> (Delivered("database:added", p) \/ p \notin files)
  /\ [][\A p \in OnePath :
          Delivered("database:added", p)'
            => state'.databaseCount = state.databaseCount + 1]_vars

\* The creation of a file has just been answered by database:added, and the
\* count is 1.
C15_Witness ==
  \E p \in OnePath :
     /\ Delivered("database:added", p)
     /\ state.status = "running" /\ state.databaseCount = 1
     /\ p \in files /\ Known(p)

RemoveOps == {"remove", "detach", "evt_unlink"}

\* The step in which task t calls removeManagedDatabase(p).
RemoveCalled(t, p) ==
  tasks[t].op = "idle" /\ tasks'[t].op \in RemoveOps /\ tasks'[t].path = p

\* The step in which the removeManagedDatabase(p) of task t returns.
RemoveReturns(t, p) ==
  /\ tasks[t].op \in RemoveOps /\ tasks[t].pc \in {"rm_detach", "rm_evict"}
  /\ tasks[t].path = p /\ tasks'[t].op = "idle"

\* Path p has no record that is not 'removed' and no attachment.
Gone(p) == ~Listed(p) /\ ~IsManaged(managed, p)

UpdateOps == {"update", "evt_change", "direct_update"}

\* The step in which task t calls updateManagedDatabase(p, updates).
UpdateCalled(t, p) ==
  tasks[t].op = "idle" /\ tasks'[t].op \in UpdateOps /\ tasks'[t].path = p

\* The database-changed events of a step that carry record r.
ChangedWith(evs, r) ==
  SelectSeq(evs, LAMBDA e : /\ e.ch = "manager" /\ e.name = "database-changed"
                            /\ e.rec = <<r>>)

\* C18: on a connected store updateManagedDatabase(p, fields) raises no
\* error; without a record for p it changes no record and emits nothing; with
\* a record for p it writes the given fields, and no other, to the record of
\* p, reads the record back and emits exactly one database-changed carrying
\* the record it read, on which the orchestrator sets lastEvent and leaves
\* databaseCount, status and the attachment map as they are.
\* (last_modified is not a field of the model's rows.)
C18_UpdateSemantics ==
  [][\A t \in Tasks, p \in Paths :
       /\ (UpdateCalled(t, p) /\ coreOpen /\ tablesExist)
            => /\ tasks'[t].pc # "fail"
               /\ Announced(out', "database-changed", p) = <<>>
               /\ state' = state /\ managed' = managed
               /\ Len(records') = Len(records)
               /\ \A i \in 1..Len(records) :
                    LET upd == tasks'[t].arg[1]
                        r == records[i] IN
                    records'[i] =
                      IF r.path # p THEN r
                      ELSE [id |-> r.id, path |-> r.path,
                            status |-> IF upd.status = <<>> THEN r.status
                                       ELSE upd.status[1],
                            size |-> IF upd.size = <<>> THEN r.size
                                     ELSE upd.size]
       /\ ( /\ tasks[t].op \in UpdateOps /\ tasks[t].pc = "upd_get"
            /\ tasks[t].path = p /\ tasks'[t] # tasks[t]
            /\ coreOpen /\ tablesExist )
            => /\ tasks'[t].pc # "fail"
               /\ records' = records /\ out' = <<>>
               /\ state' = state /\ managed' = managed
               /\ ~HasRow(records, p) => tasks'[t].rec = <<>>
               /\ HasRow(records, p)
                    => /\ Len(tasks'[t].rec) = 1
                       /\ \E i \in 1..Len(records) : tasks'[t].rec[1] = records[i]
                       /\ tasks'[t].rec[1].path = p
       /\ ( /\ tasks[t].op \in UpdateOps /\ tasks[t].pc = "upd_emit"
            /\ tasks[t].path = p /\ tasks'[t] # tasks[t] )
            => /\ tasks'[t].op = "idle"
               /\ records' = records /\ managed' = managed
               /\ IF tasks[t].rec = <<>>
                    THEN out' = <<>> /\ state' = state
                    ELSE /\ Len(Announced(out', "database-changed", p)) = 1
                         /\ Len(ChangedWith(out', tasks[t].rec[1])) = 1
                         /\ Wired(tasks[t].op)
                              => /\ state'.lastEvent =
                                      <<[type |-> "database:changed", path |-> p]>>
                                 /\ state'.databaseCount = state.databaseCount
                                 /\ state'.status = state.status]_vars

\* What a step delivers to the subscribers of 'event' under the given type.
OnEvent(evs, type) ==
  SelectSeq(evs, LAMBDA e : e.ch = "server" /\ e.name = type)

\* C19: the step in which a start() succeeds delivers exactly one
\* server:start to the subscribers of 'event', with status 'running', and the
\* step in which a stop() succeeds delivers exactly one server:stop, with
\* status 'stopped'; no other step delivers either.
C19_LifecycleEvents ==
  [][/\ \A t \in Tasks :
          /\ (At(t, "start_mark") /\ tasks[t].op = "start" /\ tasks'[t].op = "idle")
               => /\ state'.status = "running"
                  /\ Len(OnEvent(out', "server:start")) = 1
          /\ (At(t, "stop_mark") /\ tasks[t].op = "stop" /\ tasks'[t].op = "idle")
               => /\ state'.status = "stopped"
                  /\ Len(OnEvent(out', "server:stop")) = 1
     /\ OnEvent(out', "server:start") # <<>>
          => \E t \in Tasks : At(t, "start_mark") /\ tasks'[t].op = "idle"
     /\ OnEvent(out', "server:stop") # <<>>
          => \E t \in Tasks : At(t, "stop_mark") /\ tasks'[t].op = "idle"]_vars

\* The watcher's events of a step, and those of one kind for one path.
FromWatcher(evs) == SelectSeq(evs, LAMBDA e : e.ch = "watcher")

Reported(evs, kind, p) ==
  SelectSeq(evs, LAMBDA e : e.ch = "watcher" /\ e.name = kind /\ e.path = p)

\* The Manager call that translates a watcher event of the given kind.
CallOf(kind) ==
  CASE kind = "add" -> "evt_add"
    [] kind = "change" -> "evt_change"
    [] kind = "unlink" -> "evt_unlink"

\* The calls for path p of the given operation that the step starts.
Started(op, p) ==
  {t \in Tasks : tasks[t].op = "idle" /\ tasks'[t].op = op /\ tasks'[t].path = p}

\* C20: when the Manager call made for a watcher event raises an error, the
\* step in which the listener catches it delivers that error on the
\* orchestrator's error signal, sets status 'error' and leaves the watcher as
\* it is; and every watcher event, in any status and for any path, starts
\* exactly one Manager call, of the kind that matches the event.
C20_HandlerErrorReported ==
  [][/\ \A t \in Tasks :
          (tasks[t].op \in EventOps /\ At(t, "fail") /\ tasks'[t] # tasks[t])
            => /\ out' = <<Ev("server", "error", tasks[t].err, <<>>)>>
               /\ tasks[t].err # ""
               /\ state'.status = "error"
               /\ UNCHANGED watchVars
     /\ Len(FromWatcher(out')) <= 1
     /\ \A p \in Paths, kind \in {"add", "change", "unlink"} :
          /\ Reported(out', kind, p) # <<>>
               => /\ Cardinality(Started(CallOf(kind), p)) = 1
                  /\ \A t \in Tasks :
                       tasks'[t] # tasks[t] => t \in Started(CallOf(kind), p)
          /\ Started(CallOf(kind), p) # {} => Reported(out', kind, p) # <<>>]_vars

\* The listener has just reported the ADD_DATABASE_ERROR of the add made for a
\* watcher event, and the watcher still runs with its handle open on the roots.
C20_Witness ==
  /\ out = <<Ev("server", "error", "ADD_DATABASE_ERROR", <<>>)>>
  /\ state.status = "error"
  /\ wActive /\ HandleOpen /\ wHandle[1].roots # {}
  /\ coreOpen /\ initialized

\* The errors of a step that were delivered on the watcher's error signal,
\* and those that were thrown where nothing catches them.
OnWatcherError(evs) ==
  SelectSeq(evs, LAMBDA e : e.ch = "watcher" /\ e.name = "error")

Uncaught(evs) == SelectSeq(evs, LAMBDA e : e.ch = "process")

\* C21: an error of the watch handle of a started watcher is delivered on the
\* watcher's error signal, exactly once and never as an uncaught exception,
\* and the step leaves isActive, the handle, the calls in flight and the
\* server's state as they are; a start() of the watcher that fails hands the
\* error to its caller and leaves the watcher not running.
C21_WatchErrorReported ==
  [][/\ Uncaught(out') = <<>>
     /\ OnWatcherError(out') # <<>>
          => /\ Len(OnWatcherError(out')) = 1
             /\ wActive' = wActive /\ wHandle' = wHandle
             /\ tasks' = tasks /\ state' = state
     /\ \A t \in Tasks :
          ( /\ tasks[t].op # "idle"
            /\ tasks[t].pc \in {"start_watch", "reload_start"}
            /\ tasks'[t].pc = "fail" )
            => /\ ~wActive' /\ wHandle' = wHandle
               /\ tasks'[t].err = "WATCH_ERROR"]_vars

\* C22: transaction(body) is all or nothing.  At no time does the file hold
\* some of a body's writes without the others; a call that returned has all
\* of its writes committed; a call that failed has none committed and raised
\* TRANSACTION_ERROR.  Other calls on the store, another transaction()
\* included, run at the body's awaits.
C22_TransactionAtomic ==
  \A k \in TxIds :
     /\ committed \cap BodyWrites(k) \in {{}, BodyWrites(k)}
     /\ (calls[k].pc = "over" /\ calls[k].err = "")
          => BodyWrites(k) \subseteq committed
     /\ (calls[k].pc = "over" /\ calls[k].err \notin {"", "NOT_CONNECTED"})
          => /\ committed \cap BodyWrites(k) = {}
             /\ calls[k].err = "TRANSACTION_ERROR"

\* The operations of the store that need a handle.
StoreOps == {"query", "get", "execute", "exec", "transaction"}

\* C23: query, get, execute, exec and transaction invoked on a disconnected
\* store raise a DatabaseError with code NOT_CONNECTED and the invoked
\* operation's name as its tag, and nothing else, and leave the handle, the
\* statement cache and the data as they are.
C23_NotConnected ==
  [][\A op \in StoreOps :
       (db = <<>> /\ out' # <<>> /\ out'[1] = Called(op)[1])
         => /\ out' = <<Ev("called", op, "", <<>>),
                        Ev("raised", "NOT_CONNECTED", op, <<>>)>>
            /\ db' = <<>>
            /\ UNCHANGED <<preparedStatements, committed, pending, inTx, handles>>]_vars

\* A transaction() invoked on a store that was disconnected after use has
\* just been refused, and the file still holds what was written before.
C23_Witness ==
  /\ out = Called("transaction") \o Raised("NOT_CONNECTED", "transaction")
  /\ db = <<>> /\ handles > 0 /\ committed # {}
  /\ preparedStatements = {}

InitOps == {"start", "initialize"}
InitPcs == {"init_tables", "init_config", "init_finish"}

\* The step in which task t calls initialize(), and a later step of it.
InitCalled(t) == tasks[t].op = "idle" /\ tasks'[t].op \in InitOps

InitContinues(t) ==
  tasks[t].op \in InitOps /\ tasks[t].pc \in InitPcs /\ tasks'[t] # tasks[t]

\* C25: initialize() on an initialized Manager returns without changing the
\* store, the Manager or the watcher; an initialize() fails with INIT_ERROR,
\* only when the store cannot be reached, and then initialized is false, so
\* that a later call runs again; an initialize() that returns after a
\* cleanup() has the store connected, the schema and the configuration in
\* place and initialized true; and no step of initialize() touches a
\* registry record or the attachment map.
C25_InitializeIdempotent ==
  [][\A t \in Tasks :
       /\ (InitCalled(t) /\ initialized)
            => /\ tasks'[t].pc = AfterInit(tasks'[t].op)
               /\ UNCHANGED <<coreVars, mgrVars, state, watchVars>>
       /\ (InitCalled(t) \/ InitContinues(t))
            => /\ records' = records /\ managed' = managed
               /\ tasks'[t].pc = "fail"
                    => /\ tasks'[t].err = "INIT_ERROR"
                       /\ ~initialized' /\ ~coreOpen'
       /\ (InitContinues(t) /\ tasks[t].pc = "init_finish")
            => /\ initialized' /\ coreOpen' /\ tablesExist'
               /\ sysConfig' = Range(ConfigKeys)]_vars

\* After a stop(), whose cleanup() disconnected the store, the initialize()
\* of the next start() has returned: the Manager is initialized again, the
\* store is connected and the registry still holds its records.
C25_Witness ==
  /\ state.status = "stopped"
  /\ \E t \in Tasks : tasks[t].op = "start" /\ tasks[t].pc = "start_list"
  /\ initialized /\ coreOpen /\ records # <<>>

\* The callers of cleanup() and the positions inside it.
CleanupOps == {"stop", "cleanup"}

\* A step of the cleanup() of task t that starts at position i of the map:
\* its call (from stop() once the watcher is stopped) or a later step.
CleanupAt(t, i) ==
  \/ /\ i = 1
     /\ \/ tasks[t].op = "idle" /\ tasks'[t].op = "cleanup"
        \/ At(t, "stop_cleanup") /\ tasks'[t] # tasks[t]
  \/ At(t, "cl_next") /\ tasks[t].i = i /\ tasks'[t] # tasks[t]

\* C26: cleanup() attempts the close of every entry of the attachment map,
\* one after the other and whether or not a close fails, then clears the map
\* and disconnects the store; when it completes the map is empty, the store
\* is disconnected, initialized is false and exactly one cleanup event has
\* been emitted.
C26_CleanupCompletes ==
  [][\A t \in Tasks :
       /\ \A i \in 1..(MaxTasks + 1) :
            CleanupAt(t, i)
              => IF i <= Len(managed)
                   THEN /\ out' = <<Ev("called", "disconnect", managed[i].path, <<>>)>>
                        /\ tasks'[t].pc = "cl_next" /\ tasks'[t].i = i + 1
                        /\ Len(managed') = Len(managed)
                   ELSE /\ managed' = <<>> /\ ~coreOpen'
                        /\ tasks'[t].pc = "cl_finish"
       /\ (At(t, "cl_finish") /\ tasks'[t] # tasks[t])
            => /\ managed' = <<>>
               /\ ~coreOpen' /\ ~initialized'
               /\ Len(SelectSeq(out', LAMBDA e : e.name = "cleanup")) = 1]_vars

\* The watcher's signals of the given name in a step.
Signal(evs, name) ==
  SelectSeq(evs, LAMBDA e : e.ch = "watcher" /\ e.name = name)

\* C27: start() on a running watcher and stop() on a watcher that is not
\* running change nothing and raise nothing; 'started' is emitted exactly in
\* the steps that turn isActive from false to true and 'stopped' exactly in
\* those that turn it from true to false, once each, so that the two signals
\* alternate, beginning with 'started', and isRunning() is true exactly
\* between a 'started' and the next 'stopped'; also for calls that overlap a
\* stop in progress.
C27_WatcherStateMachine ==
  [][/\ \A t \in Tasks :
          /\ (tasks[t].op = "idle" /\ tasks'[t].op = "watcher_start" /\ wActive)
               => /\ tasks'[t].pc = "ret" /\ out' = <<>>
                  /\ UNCHANGED watchVars
          /\ (tasks[t].op = "idle" /\ tasks'[t].op = "watcher_stop" /\ ~wActive)
               => /\ tasks'[t].pc = "ret" /\ out' = <<>>
                  /\ UNCHANGED watchVars
     /\ Signal(out', "started") # <<>>
          => (Len(Signal(out', "started")) = 1 /\ ~wActive /\ wActive')
     /\ Signal(out', "stopped") # <<>>
          => (Len(Signal(out', "stopped")) = 1 /\ wActive /\ ~wActive')
     /\ (~wActive /\ wActive') => Signal(out', "started") # <<>>
     /\ (wActive /\ ~wActive') => Signal(out', "stopped") # <<>>]_vars

\* The step in which the update_paths call of task t handles position i of
\* its paths (0: the reloadPaths of a 'set'): the call itself or a later step.
PathsAt(t, i) ==
  \/ /\ tasks[t].op = "idle" /\ tasks'[t].op = "paths"
     /\ i = IF tasks'[t].mode = "set" THEN 0 ELSE 1
  \/ /\ At(t, "paths_next") /\ tasks[t].op = "paths" /\ tasks[t].i = i
     /\ tasks'[t] # tasks[t]

\* The call whose step it is: the task as it is after the step, or before it
\* when the step ends the call.
CallAt(t) == IF tasks'[t].op = "paths" THEN tasks'[t] ELSE tasks[t]

\* this.watcher.close() has been called on the handle in this step.
CloseCalled == wHandle # <<>> /\ wHandle' # <<>> /\ wHandle'[1].closed

\* C28: reloadPaths(newPaths) replaces the configured set; on a running
\* watcher it stops the watcher, closing the handle, and starts it again on
\* the configured set, and when the call is over the watcher either runs on a
\* handle for exactly newPaths or is stopped with newPaths configured; on a
\* stopped watcher it does nothing more.  addPath of a configured path and
\* removePath of an unconfigured one change nothing and reload nothing; the
\* others change the configured set and reload only on a running watcher.
C28_ReloadPaths ==
  [][\A t \in Tasks :
       /\ PathsAt(t, 0)
            => /\ wPaths' = CallAt(t).arg
               /\ IF wActive
                    THEN CloseCalled /\ tasks'[t].pc = "wstop_closed"
                    ELSE /\ tasks'[t].pc = "paths_next"
                         /\ UNCHANGED <<wActive, wHandle, orphans>>
       /\ \A i \in 1..MaxPathArgs :
            (PathsAt(t, i) /\ i <= Len(CallAt(t).arg))
              => LET x == CallAt(t).arg[i]
                     add == CallAt(t).mode = "add"
                     hit == IF add THEN ~Includes(wPaths, x) ELSE Includes(wPaths, x) IN
                 /\ ~hit => /\ UNCHANGED <<wPaths, wActive, wHandle, orphans>>
                            /\ tasks'[t].pc = "paths_next"
                 /\ hit => /\ Len(wPaths') = Len(wPaths) + (IF add THEN 1 ELSE -1)
                           /\ add => Includes(wPaths', x)
                           /\ \A y \in Roots \ {x} :
                                Includes(wPaths', y) = Includes(wPaths, y)
                           /\ IF wActive
                                THEN CloseCalled /\ tasks'[t].pc = "wstop_closed"
                                ELSE /\ tasks'[t].pc = "paths_next"
                                     /\ UNCHANGED <<wActive, wHandle, orphans>>
       /\ (At(t, "wstop_closed") /\ tasks[t].op = "paths" /\ tasks'[t] # tasks[t])
            => (~wActive' /\ wHandle' = <<>> /\ tasks'[t].pc = "reload_start")
       /\ ( /\ At(t, "reload_start") /\ tasks[t].op = "paths"
            /\ tasks'[t] # tasks[t] /\ tasks'[t].pc # "fail" )
            => /\ wActive' /\ HandleOpen'
               /\ wHandle'[1].roots = Range(wPaths)
       /\ ( /\ tasks[t].op = "paths" /\ tasks'[t].op = "idle"
            /\ tasks[t].pc # "fail" /\ tasks[t].mode = "set" )
            => /\ wPaths' = tasks[t].arg
               /\ IF wActive'
                    THEN HandleOpen' /\ wHandle'[1].roots = Range(tasks[t].arg)
                    ELSE ~HandleOpen']_vars

\* A 'set' request has returned on a running watcher whose handle is open on
\* exactly the new paths, which differ from the constructor's.
C28_Witness ==
  /\ Responses(out) # <<>> /\ Responses(out)[1].name = "update_paths"
  /\ Responses(out)[1].rec[1].success
  /\ wActive /\ HandleOpen
  /\ wPaths = <<"X">> /\ wHandle[1].roots = {"X"}

\* The number of platform watch handles that are open: the one this.watcher
\* refers to and those no reference is left to.
LiveCount == (IF HandleOpen THEN 1 ELSE 0) + Cardinality(orphans)

\* A stop() of the watcher completes in this step, after its close().
StopCompletes == \E t \in Tasks : At(t, "wstop_closed") /\ tasks'[t] # tasks[t]

\* C29: at most one platform watch handle is open at any time, and when a
\* stop() completes and leaves the watcher not running no handle is open, for
\* start, stop, reloadPaths, addPath and removePath calls in any interleaving.
C29_OneLiveHandle ==
  [][ /\ LiveCount' <= 1
      /\ (StopCompletes /\ ~wActive') => LiveCount' = 0 ]_vars

\* The step in which the addManagedDatabase(p) of task t throws to its caller.
AddFails(t, p) ==
  /\ At(t, "fail") /\ tasks[t].op \in {"add", "attach", "evt_add"}
  /\ tasks[t].path = p /\ tasks'[t].op = "idle"

\* C30: when addManagedDatabase(p) fails, the registry holds no record of p
\* that the call inserted (a call that got as far as reading its record back
\* has inserted it), and the attachment map and databaseCount are as they were.
C30_AddAllOrNothing ==
  [][\A t \in Tasks, p \in Paths :
       AddFails(t, p)
         => /\ tasks[t].rec # <<>> => ~HasRow(records', p)
            /\ managed' = managed
            /\ state'.databaseCount = state.databaseCount]_vars

\* The records listManagedDatabases() returns with status 'active'.
ActiveListed == SelectSeq(ListManagedDatabases, LAMBDA r : r.status = "active")

\* C31: while the Manager is initialized and no call is in flight, every
\* listed record with status 'active' has an open attachment, so that
\* getDatabaseInfo on its path succeeds; also after a stop() and a start().
C31_ActiveIsAttached ==
  (initialized /\ Quiet)
    => \A i \in 1..Len(ActiveListed) : GetDatabaseInfo(ActiveListed[i].path) = "ok"

\* The callers of addManagedDatabase.
AddOps == {"add", "attach", "evt_add"}

\* An addManagedDatabase(p) of task t is in flight.
AddInFlight(t, p) == tasks[t].op \in AddOps /\ tasks[t].path = p

\* It is in flight past its INSERT, which succeeded.
AddInserted(t, p) ==
  AddInFlight(t, p) /\ tasks[t].pc \in {"add_get", "add_connect", "add_set"}

\* Another addManagedDatabase(p) is in flight beside that of task t.
Raced(t, p) == \E u \in Tasks \ {t} : AddInFlight(u, p)

\* State part of C32: two calls for one path are never both past the INSERT,
\* and no path has two records or two attachments.
OneAddWins ==
  \A p \in Paths :
     /\ \A t, u \in Tasks : (AddInserted(t, p) /\ AddInserted(u, p)) => t = u
     /\ Len(RowsOf(records, p)) <= 1
     /\ Len(SelectSeq(managed, LAMBDA e : e.path = p)) <= 1

\* Step part of C32 without the success of the first call: a call made while
\* another for the path is past its INSERT is rejected and changes nothing,
\* and when the first returns beside the second there is one record and one
\* open attachment of p, one database-added and a databaseCount one higher.
RaceOutcome ==
  \A t \in Tasks, p \in Paths :
     /\ (AddCalled(t, p) /\ \E u \in Tasks \ {t} : AddInserted(u, p))
          => /\ tasks'[t].pc = "fail" /\ tasks'[t].err = "ADD_DATABASE_ERROR"
             /\ records' = records /\ managed' = managed
             /\ state'.databaseCount = state.databaseCount
             /\ Announced(out', "database-added", p) = <<>>
     /\ (AddSucceeds(t, p) /\ Raced(t, p))
          => /\ Len(RowsOf(records', p)) = 1
             /\ GetDatabaseInfo(p)' = "ok"
             /\ Len(Announced(out', "database-added", p)) = 1
             /\ state'.databaseCount = state.databaseCount + 1

\* The call of task t, past its INSERT, fails in this step.
AddLoses(t, p) == AddInserted(t, p) /\ tasks'[t].pc = "fail"

\* C32: of two addManagedDatabase(p) calls for a new path that are in flight
\* at once exactly one succeeds: the second is rejected and the first does
\* not fail; afterwards p has one record and one open attachment, one
\* database-added was emitted and databaseCount is one higher.
C32_OneOfTwoSucceeds ==
  /\ []OneAddWins
  /\ [][ /\ RaceOutcome
         /\ \A t \in Tasks, p \in Paths : Raced(t, p) => ~AddLoses(t, p) ]_vars

\* C32 for a file that can be opened on a connected store: the part of the
\* claim that is the race itself.
RaceResolved ==
  /\ []OneAddWins
  /\ [][ /\ RaceOutcome
         /\ \A t \in Tasks, p \in Paths :
              (Raced(t, p) /\ AddLoses(t, p)) => (~CanOpen(p) \/ StoreError # "") ]_vars

\* The listener's addManagedDatabase(p) for an add(p) event, which failed
\* before it read a record back (at its INSERT, when p has a record), returns
\* to the listener's catch in this step.
ScanAddReturns(t, p) ==
  /\ At(t, "fail") /\ tasks[t].op = "evt_add" /\ tasks[t].path = p
  /\ tasks[t].rec = <<>> /\ tasks'[t].op = "idle"

\* C33: an add(p) event for a path that has a listed record on the connected
\* store (the initial scan after a start() on a store that holds p) leaves
\* the records and databaseCount as they are, both when the listener makes
\* its call and when the call returns, and leaves a running server running.
C33_ScanOfKnownFile ==
  [][\A t \in Tasks, p \in Paths :
       /\ ( /\ AddCalled(t, p) /\ tasks'[t].op = "evt_add"
            /\ Listed(p) /\ StoreError = "" )
            => /\ records' = records
               /\ state'.databaseCount = state.databaseCount
               /\ state'.status = state.status
       /\ (ScanAddReturns(t, p) /\ Listed(p) /\ StoreError = "")
            => /\ records' = records
               /\ state'.databaseCount = state.databaseCount
               /\ state.status = "running" => state'.status = "running"]_vars

=============================================================================
